---------------------------- MODULE Spec2Model ----------------------------
(***************************************************************************)
(* plot_tfr_first_birth.py: a one-shot pipeline                            *)
(*   read CSV -> ISO-3 filter -> latest row per country -> TFR / MAC ->    *)
(*   drop degenerate rows -> region -> OLS fit -> render/save -> print.    *)
(*                                                                         *)
(* Numbers are IEEE-style extended values: a finite value is an exact      *)
(* fraction <<"fin", n, d>> (d > 0, lowest terms), and NaN, +Inf and -Inf  *)
(* behave as numpy's do (x/0 = +/-Inf, 0/0 = NaN, Inf - Inf = NaN, NaN is  *)
(* contagious and compares false).  Rounding and overflow of finite        *)
(* doubles are not represented: finite arithmetic is exact.                *)
(*                                                                         *)
(* Strings that the program inspects character by character (Code) are     *)
(* sequences of one-character strings.                                     *)
(***************************************************************************)
EXTENDS Integers, Sequences, FiniteSets

VARIABLES
  pc,        \* position of the script: the step that runs next
  file,      \* the input CSV on disk: [exists, columns, rows]
  df,        \* the data frame df (set of rows)
  latest,    \* the data frame latest (set of rows, one per Entity)
  fit,       \* result of stats.linregress: "none" or [n |-> rows used]
  fault,     \* "none" or the uncaught exception that ended the run
  log,       \* the external operations and steps performed, in order
  image,     \* number of times the PNG has been written
  stdout,    \* the lines printed
  rates,     \* indicator calculator on one row: its nine rate values
  ind,       \* ... and its result: "none" or [TFR, MAC, kept]
  code,      \* region classifier on one code: the code
  region     \* ... and its result: "none" or the label

vars == <<pc, file, df, latest, fit, fault, log, image, stdout,
          rates, ind, code, region>>

pipeVars == <<pc, file, df, latest, fit, fault, log, image, stdout>>
calcVars == <<rates, ind>>
regionVars == <<code, region>>

-----------------------------------------------------------------------------
(* Bounds of the model *)

\* largest number of rows in the input table
MaxRows == 2
\* finite rate values of the calculator runs lie in -MaxRate .. MaxRate
MaxRate == 2
\* a calculator run has at most this many rate values different from 0
MaxNonZero == 3

-----------------------------------------------------------------------------
(* Extended numbers *)

NaN  == <<"nan", 0, 1>>
PInf == <<"inf", 1, 1>>
NInf == <<"inf", -1, 1>>

Abs(n) == IF n < 0 THEN -n ELSE n

Sign(n) == IF n > 0 THEN 1 ELSE IF n < 0 THEN -1 ELSE 0

RECURSIVE GCD(_, _)
GCD(a, b) == IF b = 0 THEN a ELSE GCD(b, a % b)

\* the finite value n/d (d # 0) in lowest terms with a positive denominator
Fin(n, d) ==
  LET g == GCD(Abs(n), Abs(d))
      s == IF d < 0 THEN -1 ELSE 1
  IN  <<"fin", (s * n) \div g, Abs(d) \div g>>

Num(n) == <<"fin", n, 1>>

IsNaN(x) == x[1] = "nan"
IsInf(x) == x[1] = "inf"
IsFin(x) == x[1] = "fin"

\* sign of a non-NaN value
Sgn(x) == Sign(x[2])

Inf(s) == IF s > 0 THEN PInf ELSE NInf

FAdd(x, y) ==
  IF IsNaN(x) \/ IsNaN(y) THEN NaN
  ELSE IF IsInf(x) /\ IsInf(y) THEN (IF x = y THEN x ELSE NaN)
  ELSE IF IsInf(x) THEN x
  ELSE IF IsInf(y) THEN y
  ELSE Fin(x[2] * y[3] + y[2] * x[3], x[3] * y[3])

FMul(x, y) ==
  IF IsNaN(x) \/ IsNaN(y) THEN NaN
  ELSE IF IsInf(x) \/ IsInf(y)
       THEN (IF Sgn(x) * Sgn(y) = 0 THEN NaN ELSE Inf(Sgn(x) * Sgn(y)))
  ELSE Fin(x[2] * y[2], x[3] * y[3])

\* numpy true division: warnings only, never an exception
FDiv(x, y) ==
  IF IsNaN(x) \/ IsNaN(y) THEN NaN
  ELSE IF IsInf(x) /\ IsInf(y) THEN NaN
  ELSE IF IsInf(y) THEN Num(0)
  ELSE IF IsInf(x) THEN Inf(Sgn(x) * (IF Sgn(y) < 0 THEN -1 ELSE 1))
  ELSE IF y[2] = 0 THEN (IF x[2] = 0 THEN NaN ELSE Inf(Sgn(x)))
  ELSE Fin(x[2] * y[3], x[3] * y[2])

\* x > y as numpy compares: false when either side is NaN
FGt(x, y) ==
  IF IsNaN(x) \/ IsNaN(y) THEN FALSE
  ELSE IF IsInf(x) THEN Sgn(x) > 0 /\ x # y
  ELSE IF IsInf(y) THEN Sgn(y) < 0
  ELSE x[2] * y[3] > y[2] * x[3]

-----------------------------------------------------------------------------
(* 1. Load data: the column layout *)

\* variant: the lower ends of the age groups instead of their midpoints
midpointsLower == <<10, 15, 20, 25, 30, 35, 40, 45, 50>>

midpoints == <<12, 17, 22, 27, 32, 37, 42, 47, 52>>
cols      == <<"f12", "f17", "f22", "f27", "f32", "f37", "f42", "f47", "f52">>

ColSet == {cols[i] : i \in 1..Len(cols)}

\* the columns the script reads from the table
Expected == {"Entity", "Code", "Year"} \cup ColSet

-----------------------------------------------------------------------------
(* 2. Keep only ISO-3 countries, most recent year *)

\* a missing value (NaN) in an object column
NA == <<"<NA>">>
NoEntity == "<NA>"

Upper ==
  {"A", "B", "C", "D", "E", "F", "G", "H", "I", "J", "K", "L", "M",
   "N", "O", "P", "Q", "R", "S", "T", "U", "V", "W", "X", "Y", "Z"}

\* str(c): a missing Code prints as "nan"
Str(c) == IF c = NA THEN <<"n", "a", "n">> ELSE c

\* iso3.match(s) for ^[A-Z]{3}$: three capitals from the start, then the end
\* of the string; $ also matches just before a final newline
iso3_match(s) ==
  /\ Len(s) >= 3
  /\ \A i \in 1..3 : s[i] \in Upper
  /\ \/ Len(s) = 3
     \/ Len(s) = 4 /\ s[4] = "\n"

\* df[df["Code"].apply(lambda c: bool(iso3.match(str(c))))]
Iso3Filter(rows) == {r \in rows : iso3_match(Str(r["Code"]))}

\* the null of a column, as GroupBy.last() sees it
Null(col) ==
  IF col = "Entity" THEN NoEntity ELSE IF col = "Code" THEN NA ELSE NaN

Perms(S) ==
  {p \in [1..Cardinality(S) -> S] :
     \A i, j \in 1..Cardinality(S) : i # j => p[i] # p[j]}

\* year a may stand before year b in an ascending sort, NaN last
YearBefore(a, b) == IsNaN(b) \/ (~IsNaN(a) /\ ~FGt(a, b))

\* df.sort_values("Year"): the sort is not stable, rows of equal Year come
\* out in any order
SortedOrders(rows) ==
  {p \in Perms(rows) :
     \A i, j \in 1..Cardinality(rows) :
        i < j => YearBefore(p[i]["Year"], p[j]["Year"])}

\* GroupBy.last() of one column: the last value that is not null
RECURSIVE LastNonNull(_, _, _)
LastNonNull(seq, col, k) ==
  IF k = 0 THEN Null(col)
  ELSE IF seq[k][col] # Null(col) THEN seq[k][col]
  ELSE LastNonNull(seq, col, k - 1)

\* .reset_index(): the group key comes back as the column Entity
reset_index(e) == e

\* variant: the last row of each group is skipped
GroupLastSkipsLast(order, e, columns) ==
  LET grp == SelectSeq(order, LAMBDA r : r["Entity"] = e)
  IN  [c \in columns |->
         IF c = "Entity" THEN reset_index(e)
         ELSE LastNonNull(grp, c, Len(grp) - 1)]

\* the row of group e of .groupby("Entity").last().reset_index()
GroupLast(order, e, columns) ==
  LET grp == SelectSeq(order, LAMBDA r : r["Entity"] = e)
  IN  [c \in columns |->
         IF c = "Entity" THEN reset_index(e)
         ELSE LastNonNull(grp, c, Len(grp))]

\* .groupby("Entity"): one group per Entity, rows without Entity left out
Groups(order) == {order[i]["Entity"] : i \in 1..Len(order)} \ {NoEntity}

LatestOf(order, columns) ==
  {GroupLast(order, e, columns) : e \in Groups(order)}

-----------------------------------------------------------------------------
(* 3. Compute TFR and mean age at childbearing (MAC) *)

\* ndarray.sum(axis=1) of one row: the elements added from the left
RECURSIVE SumUpTo(_, _)
SumUpTo(a, k) == IF k = 0 THEN Num(0) ELSE FAdd(SumUpTo(a, k - 1), a[k])

FSum(a) == SumUpTo(a, Len(a))

\* one row of latest[cols].values: the rate columns in the order of cols
asfr(row) == [i \in 1..Len(cols) |-> row[cols[i]]]

total_rate(a) == FSum(a)

\* variant: the 5-year width of the age groups left out
tfrNoWidth(a) == FDiv(total_rate(a), Num(1000))

tfr(a) == FDiv(FMul(Num(5), total_rate(a)), Num(1000))

\* variant: the weighted sum divided by the number of age groups
macByCount(a) ==
  FDiv(FSum([i \in 1..Len(a) |-> FMul(a[i], Num(midpoints[i]))]),
       Num(Len(a)))

mac(a) ==
  FDiv(FSum([i \in 1..Len(a) |-> FMul(a[i], Num(midpoints[i]))]),
       total_rate(a))

\* latest.assign(TFR=tfr, MAC=mac), one row
Assign(row) ==
  [c \in DOMAIN row \cup {"TFR", "MAC"} |->
     IF c = "TFR" THEN tfr(asfr(row))
     ELSE IF c = "MAC" THEN mac(asfr(row))
     ELSE row[c]]

\* variant: dropna alone, without the TFR > 0 filter
KeptDropnaOnly(row) == ~IsNaN(row["TFR"]) /\ ~IsNaN(row["MAC"])

\* variant: the filter written TFR >= 0
KeptNonNegative(row) ==
  /\ ~IsNaN(row["TFR"])
  /\ ~IsNaN(row["MAC"])
  /\ ~FGt(Num(0), row["TFR"])

\* dropna(subset=["TFR", "MAC"]) followed by latest["TFR"] > 0, one row
Kept(row) ==
  /\ ~IsNaN(row["TFR"])
  /\ ~IsNaN(row["MAC"])
  /\ FGt(row["TFR"], Num(0))

-----------------------------------------------------------------------------
(* 4. Broad regional colouring *)

africa ==
  {
    <<"D","Z","A">>, <<"A","G","O">>, <<"B","E","N">>, <<"B","W","A">>, <<"B","F","A">>, <<"B","D","I">>,
    <<"C","P","V">>, <<"C","M","R">>, <<"C","A","F">>, <<"T","C","D">>, <<"C","O","M">>, <<"C","O","D">>,
    <<"C","O","G">>, <<"C","I","V">>, <<"D","J","I">>, <<"E","G","Y">>, <<"G","N","Q">>, <<"E","R","I">>,
    <<"S","W","Z">>, <<"E","T","H">>, <<"G","A","B">>, <<"G","M","B">>, <<"G","H","A">>, <<"G","I","N">>,
    <<"G","N","B">>, <<"K","E","N">>, <<"L","S","O">>, <<"L","B","R">>, <<"L","B","Y">>, <<"M","D","G">>,
    <<"M","W","I">>, <<"M","L","I">>, <<"M","R","T">>, <<"M","U","S">>, <<"M","A","R">>, <<"M","O","Z">>,
    <<"N","A","M">>, <<"N","E","R">>, <<"N","G","A">>, <<"R","W","A">>, <<"S","T","P">>, <<"S","E","N">>,
    <<"S","L","E">>, <<"S","O","M">>, <<"Z","A","F">>, <<"S","S","D">>, <<"S","D","N">>, <<"T","Z","A">>,
    <<"T","G","O">>, <<"T","U","N">>, <<"U","G","A">>, <<"Z","M","B">>, <<"Z","W","E">>, <<"R","E","U">>,
    <<"M","Y","T">>, <<"S","H","N">>
  }

europe ==
  {
    <<"A","L","B">>, <<"A","N","D">>, <<"A","U","T">>, <<"B","L","R">>, <<"B","E","L">>, <<"B","I","H">>,
    <<"B","G","R">>, <<"H","R","V">>, <<"C","Y","P">>, <<"C","Z","E">>, <<"D","N","K">>, <<"E","S","T">>,
    <<"F","I","N">>, <<"F","R","A">>, <<"D","E","U">>, <<"G","R","C">>, <<"H","U","N">>, <<"I","S","L">>,
    <<"I","R","L">>, <<"I","T","A">>, <<"X","K","X">>, <<"L","V","A">>, <<"L","I","E">>, <<"L","T","U">>,
    <<"L","U","X">>, <<"M","L","T">>, <<"M","D","A">>, <<"M","C","O">>, <<"M","N","E">>, <<"N","L","D">>,
    <<"M","K","D">>, <<"N","O","R">>, <<"P","O","L">>, <<"P","R","T">>, <<"R","O","U">>, <<"R","U","S">>,
    <<"S","M","R">>, <<"S","R","B">>, <<"S","V","K">>, <<"S","V","N">>, <<"E","S","P">>, <<"S","W","E">>,
    <<"C","H","E">>, <<"U","K","R">>, <<"G","B","R">>, <<"V","A","T">>
  }

americas ==
  {
    <<"A","T","G">>, <<"A","R","G">>, <<"B","H","S">>, <<"B","R","B">>, <<"B","L","Z">>, <<"B","O","L">>,
    <<"B","R","A">>, <<"C","A","N">>, <<"C","H","L">>, <<"C","O","L">>, <<"C","R","I">>, <<"C","U","B">>,
    <<"D","M","A">>, <<"D","O","M">>, <<"E","C","U">>, <<"S","L","V">>, <<"G","R","D">>, <<"G","T","M">>,
    <<"G","U","Y">>, <<"H","T","I">>, <<"H","N","D">>, <<"J","A","M">>, <<"M","E","X">>, <<"N","I","C">>,
    <<"P","A","N">>, <<"P","R","Y">>, <<"P","E","R">>, <<"K","N","A">>, <<"L","C","A">>, <<"V","C","T">>,
    <<"S","U","R">>, <<"T","T","O">>, <<"U","S","A">>, <<"U","R","Y">>, <<"V","E","N">>
  }

oceania ==
  {
    <<"A","U","S">>, <<"F","J","I">>, <<"K","I","R">>, <<"M","H","L">>, <<"F","S","M">>, <<"N","R","U">>,
    <<"N","Z","L">>, <<"P","L","W">>, <<"P","N","G">>, <<"W","S","M">>, <<"S","L","B">>, <<"T","O","N">>,
    <<"T","U","V">>, <<"V","U","T">>
  }

\* variant: the default label shortened, no longer a key of the palette
get_regionShortDefault(c) ==
  IF c \in africa THEN "Africa"
  ELSE IF c \in europe THEN "Europe"
  ELSE IF c \in americas THEN "Americas"
  ELSE IF c \in oceania THEN "Oceania"
  ELSE "Asia"

get_region(c) ==
  IF c \in africa THEN "Africa"
  ELSE IF c \in europe THEN "Europe"
  ELSE IF c \in americas THEN "Americas"
  ELSE IF c \in oceania THEN "Oceania"
  ELSE "Asia & Middle East"

palette ==
  [r \in {"Africa", "Europe", "Americas", "Asia & Middle East", "Oceania"} |->
     CASE r = "Africa"             -> "#e06c1a"
       [] r = "Europe"             -> "#3a7eca"
       [] r = "Americas"           -> "#2ca02c"
       [] r = "Asia & Middle East" -> "#9467bd"
       [] r = "Oceania"            -> "#d62728"]

\* latest["Region"] = latest["Code"].apply(get_region), one row
WithRegion(row) ==
  [c \in DOMAIN row \cup {"Region"} |->
     IF c = "Region" THEN get_region(row["Code"]) ELSE row[c]]

-----------------------------------------------------------------------------
(* The input tables *)

FRA == <<"F", "R", "A">>
NGA == <<"N", "G", "A">>
OWID_WRL == <<"O", "W", "I", "D", "_", "W", "R", "L">>

Entities == {"France", "Nigeria", NoEntity}
Codes    == {FRA, NGA, OWID_WRL}
Years    == {Num(2000), Num(2001)}

\* a row of rates from its nine values in the order of cols
Rates(seq) == [c \in ColSet |-> seq[CHOOSE i \in 1..Len(cols) : cols[i] = c]]

Ints(seq) == [i \in 1..Len(seq) |-> Num(seq[i])]

ExampleRates == Rates(Ints(<<0, 0, 50, 100, 80, 30, 5, 0, 0>>))

RateRows ==
  { ExampleRates,
    Rates(Ints(<<0, 10, 0, 0, 0, 0, 0, 0, 0>>)),
    Rates(Ints(<<1, -1, 0, 0, 0, 0, 0, 0, 0>>)),
    Rates(<<NaN, Num(0), Num(50), Num(100), Num(80), Num(30), Num(5),
            Num(0), Num(0)>>),
    Rates(<<Num(0), Num(0), PInf, Num(100), Num(80), Num(30), Num(5),
            Num(0), Num(0)>>) }

MkRow(e, c, y, v) ==
  [col \in Expected |->
     IF col = "Entity" THEN e
     ELSE IF col = "Code" THEN c
     ELSE IF col = "Year" THEN y
     ELSE v[col]]

FullRows ==
  {MkRow(e, c, y, v) : e \in Entities, c \in Codes, y \in Years, v \in RateRows}

Restrict(r, columns) == [c \in columns |-> r[c]]

\* the column sets tried: all expected columns, or one of them absent
Layouts ==
  {Expected} \cup {Expected \ {c} : c \in {"Entity", "Code", "Year", "f12", "f52"}}

\* the subsets of S with at most k elements
RECURSIVE UpTo(_, _)
UpTo(S, k) ==
  IF k = 0 THEN {{}}
  ELSE LET P == UpTo(S, k - 1) IN P \cup {T \cup {x} : T \in P, x \in S}

Tables(columns) == UpTo({Restrict(r, columns) : r \in FullRows}, MaxRows)

NoFrame == [columns |-> {}, rows |-> {}]

-----------------------------------------------------------------------------
(* The script, step by step *)

\* variant: exceptions are swallowed and the script goes on
RunningSwallow == TRUE

\* nothing catches an exception: a step runs only while none was raised
Running == fault = "none"

Raise(e) ==
  /\ fault' = e
  /\ UNCHANGED <<pc, file, df, latest, fit, log, image, stdout>>

\* line 20: pd.read_csv; the file may not be there
Load ==
  /\ pc = "load" /\ Running
  /\ \/ /\ df' = file
        /\ log' = Append(log, "read")
        /\ pc' = "filter"
        /\ UNCHANGED <<file, latest, fit, fault, image, stdout>>
     \/ Raise("FileNotFoundError")
  /\ UNCHANGED <<calcVars, regionVars>>

\* lines 27-28: the ISO-3 filter.  On a frame without rows the mask is an
\* empty non-boolean Series, which pandas may take for a list of column
\* labels: the result then has no columns
Filter ==
  /\ pc = "filter" /\ Running
  /\ IF "Code" \notin df.columns
     THEN Raise("KeyError")
     ELSE /\ \E columns \in {df.columns} \cup (IF df.rows = {} THEN {{}} ELSE {}) :
               df' = [columns |-> columns, rows |-> Iso3Filter(df.rows)]
          /\ log' = Append(log, "filter")
          /\ pc' = "latest"
          /\ UNCHANGED <<file, latest, fit, fault, image, stdout>>
  /\ UNCHANGED <<calcVars, regionVars>>

\* line 31: latest = df.sort_values("Year").groupby("Entity").last().reset_index()
Latest ==
  /\ pc = "latest" /\ Running
  /\ IF ~({"Year", "Entity"} \subseteq df.columns)
     THEN Raise("KeyError")
     ELSE /\ \E order \in SortedOrders(df.rows) :
               latest' = [columns |-> df.columns,
                          rows |-> LatestOf(order, df.columns)]
          /\ log' = Append(log, "latest")
          /\ pc' = "calc"
          /\ UNCHANGED <<file, df, fit, fault, image, stdout>>
  /\ UNCHANGED <<calcVars, regionVars>>

\* lines 34-40: asfr, total_rate, tfr, mac, assign
Calc ==
  /\ pc = "calc" /\ Running
  /\ IF ~(ColSet \subseteq latest.columns)
     THEN Raise("KeyError")
     ELSE /\ latest' = [columns |-> latest.columns \cup {"TFR", "MAC"},
                        rows |-> {Assign(r) : r \in latest.rows}]
          /\ log' = Append(log, "calc")
          /\ pc' = "drop"
          /\ UNCHANGED <<file, df, fit, fault, image, stdout>>
  /\ UNCHANGED <<calcVars, regionVars>>

\* lines 43-44: dropna and the TFR > 0 filter
Drop ==
  /\ pc = "drop" /\ Running
  /\ latest' = [latest EXCEPT !.rows = {r \in latest.rows : Kept(r)}]
  /\ log' = Append(log, "drop")
  /\ pc' = "region"
  /\ UNCHANGED <<file, df, fit, fault, image, stdout>>
  /\ UNCHANGED <<calcVars, regionVars>>

\* line 78: latest["Region"] = latest["Code"].apply(get_region)
Region ==
  /\ pc = "region" /\ Running
  /\ latest' = [columns |-> latest.columns \cup {"Region"},
                rows |-> {WithRegion(r) : r \in latest.rows}]
  /\ log' = Append(log, "region")
  /\ pc' = "regress"
  /\ UNCHANGED <<file, df, fit, fault, image, stdout>>
  /\ UNCHANGED <<calcVars, regionVars>>

\* stats.linregress(x, y) raises ValueError on empty input and when all x
\* are identical and there is more than one
Degenerate(rows) ==
  \/ rows = {}
  \/ Cardinality(rows) > 1 /\ Cardinality({r["MAC"] : r \in rows}) = 1

\* lines 89-91: the OLS fit over the retained rows.  Of the fit only the
\* number of rows it used is kept; slope, intercept, r and p are reals the
\* model does not compute
Regress ==
  /\ pc = "regress" /\ Running
  /\ IF Degenerate(latest.rows)
     THEN Raise("ValueError")
     ELSE /\ fit' = <<[n |-> Cardinality(latest.rows)]>>
          /\ log' = Append(log, "regress")
          /\ pc' = "render"
          /\ UNCHANGED <<file, df, latest, fault, image, stdout>>
  /\ UNCHANGED <<calcVars, regionVars>>

\* lines 94-150: the figure, built in memory; palette[region] is looked up
\* for every group
Render ==
  /\ pc = "render" /\ Running
  /\ IF \E r \in latest.rows : r["Region"] \notin DOMAIN palette
     THEN Raise("KeyError")
     ELSE /\ log' = Append(log, "render")
          /\ pc' = "save"
          /\ UNCHANGED <<file, df, latest, fit, fault, image, stdout>>
  /\ UNCHANGED <<calcVars, regionVars>>

\* line 151: plt.savefig; the path may not be writable
Save ==
  /\ pc = "save" /\ Running
  /\ \/ /\ image' = image + 1
        /\ log' = Append(log, "write")
        /\ pc' = "print"
        /\ UNCHANGED <<file, df, latest, fit, fault, stdout>>
     \/ Raise("OSError")
  /\ UNCHANGED <<calcVars, regionVars>>

\* variant: n counted on the frame before the selection and the drop step
ReportBeforeDrop == [n |-> Cardinality(df.rows)]

\* the line printed: n = len(latest); r is not computed by the model
Report == [n |-> Cardinality(latest.rows)]

\* line 152: print
PrintLine ==
  /\ pc = "print" /\ Running
  /\ stdout' = Append(stdout, Report)
  /\ log' = Append(log, "print")
  /\ pc' = "done"
  /\ UNCHANGED <<file, df, latest, fit, fault, image>>
  /\ UNCHANGED <<calcVars, regionVars>>

IdleCalc == rates = ExampleRates /\ ind = <<>>
IdleRegion == code = FRA /\ region = "none"
IdlePipe ==
  /\ pc = "idle" /\ file = NoFrame
  /\ df = NoFrame /\ latest = NoFrame /\ fit = <<>>
  /\ fault = "none" /\ log = <<>> /\ image = 0 /\ stdout = <<>>

Init ==
  /\ pc = "load"
  /\ \E columns \in Layouts :
       file \in [columns : {columns}, rows : Tables(columns)]
  /\ df = NoFrame /\ latest = NoFrame /\ fit = <<>>
  /\ fault = "none" /\ log = <<>> /\ image = 0 /\ stdout = <<>>
  /\ IdleCalc /\ IdleRegion

Next ==
  \/ Load \/ Filter \/ Latest \/ Calc \/ Drop \/ Region
  \/ Regress \/ Render \/ Save \/ PrintLine

Spec == Init /\ [][Next]_vars

-----------------------------------------------------------------------------
(* The indicator calculator and the drop step on one row of rates *)

CalcValues == {NaN, PInf, NInf} \cup {Num(n) : n \in (-MaxRate)..MaxRate}

\* the row with the values a on the columns S and 0 elsewhere
Sparse(S, a) == [c \in ColSet |-> IF c \in S THEN a[c] ELSE Num(0)]

\* rows with at most MaxNonZero values other than 0, and the example row
InitCalc ==
  /\ IdlePipe /\ IdleRegion
  /\ \/ rates = ExampleRates
     \/ \E S \in UpTo(ColSet, MaxNonZero) :
          \E a \in [S -> CalcValues \ {Num(0)}] : rates = Sparse(S, a)
  /\ ind = <<>>

\* lines 34-44 on the row: assign TFR and MAC, then decide whether it stays
Compute ==
  /\ ind = <<>>
  /\ ind' = <<[row |-> Assign(rates), kept |-> Kept(Assign(rates))]>>
  /\ UNCHANGED <<rates, pipeVars, regionVars>>

NextCalc == Compute

SpecCalc == InitCalc /\ [][NextCalc]_vars

-----------------------------------------------------------------------------
(* The region classifier on one code *)

XYZ == <<"X", "Y", "Z">>

CodeInputs ==
  [1..3 -> Upper] \cup
  {<<"F", "R", "A", "\n">>, <<"n", "a", "n">>, <<"f", "r", "a">>, OWID_WRL, <<>>}

InitRegion ==
  /\ IdlePipe /\ IdleCalc
  /\ code \in CodeInputs
  /\ region = "none"

Classify ==
  /\ region = "none"
  /\ region' = get_region(code)
  /\ UNCHANGED <<code, pipeVars, calcVars>>

NextRegion == Classify

SpecRegion == InitRegion /\ [][NextRegion]_vars

-----------------------------------------------------------------------------
(* Properties of the drop step, in the pipeline *)

Passed == pc \in {"region", "regress", "render", "save", "print", "done"}

-----------------------------------------------------------------------------
(* Properties of the filter step *)

Filtered == pc = "calc" /\ Len(log) = 3

ValidSource == {s \in file.rows : iso3_match(Str(s["Code"]))}

\* s is a row of maximal Year among the source rows of its Code
MaxYearRow(s) ==
  /\ s \in ValidSource
  /\ \A t \in ValidSource :
       t["Code"] = s["Code"] => YearBefore(t["Year"], s["Year"])

\* C2: the filter step outputs exactly one row per distinct Code matching
\* ^[A-Z]{3}$, that row being the source row of maximal Year of the Code with
\* all its fields; rows with other Codes contribute nothing
C2_OneMaxYearRowPerCode ==
  Filtered =>
    /\ \A c \in {s["Code"] : s \in ValidSource} :
         /\ Cardinality({l \in latest.rows : l["Code"] = c}) = 1
         /\ \A l \in latest.rows : l["Code"] = c => MaxYearRow(l)
    /\ \A l \in latest.rows : l \in ValidSource

-----------------------------------------------------------------------------
(* Properties of the run as a whole *)

Steps ==
  <<"read", "filter", "latest", "calc", "drop", "region", "regress",
    "render", "write", "print">>

Done(step) == \E i \in 1..Len(log) : log[i] = step

C8_OrderedOnce ==
  /\ Len(log) <= Len(Steps)
  /\ log = SubSeq(Steps, 1, Len(log))
  /\ image = (IF Done("write") THEN 1 ELSE 0)
  /\ Len(stdout) = (IF Done("print") THEN 1 ELSE 0)
  /\ pc # "load" => Done("read")
  /\ pc = "done" =>
       /\ log = Steps
       /\ fit # <<>>
       /\ stdout = <<[n |-> fit[1].n]>>
       /\ fit[1].n = Cardinality(latest.rows)
       /\ ~ENABLED Next

\* a run has ended successfully after the drop step removed a row
C8_Witness ==
  /\ pc = "done"
  /\ Cardinality(latest.rows) <
       Cardinality({r["Entity"] : r \in df.rows} \ {NoEntity})

-----------------------------------------------------------------------------
(* Properties of the indicator calculator on one row *)

Computed == ind # <<>>

AllFinite == \A c \in ColSet : IsFin(rates[c])

\* the integer rate of a column (the calculator runs draw integers)
R(c) == rates[c][2]

SumRates ==
  R("f12") + R("f17") + R("f22") + R("f27") + R("f32") + R("f37") + R("f42")
    + R("f47") + R("f52")

WeightedSum ==
  12 * R("f12") + 17 * R("f17") + 22 * R("f22") + 27 * R("f27") + 32 * R("f32")
    + 37 * R("f37") + 42 * R("f42") + 47 * R("f47") + 52 * R("f52")

\* C3: for nine known rates with non-zero sum, TFR = 5 * sum / 1000 and
\* MAC = (12 r1 + 17 r2 + ... + 52 r9) / sum, f12..f52 paired with 12..52
C3_Formulas ==
  (Computed /\ AllFinite /\ SumRates # 0) =>
    /\ ind[1].row["TFR"] = Fin(5 * SumRates, 1000)
    /\ ind[1].row["MAC"] = Fin(WeightedSum, SumRates)

\* a row with three different rates in three columns has been computed
C3_Witness ==
  /\ Computed /\ AllFinite /\ SumRates # 0
  /\ R("f12") = 1 /\ R("f27") = 2 /\ R("f52") = -1

\* C4 as stated: for the row [0,0,50,100,80,30,5,0,0], total = 265,
\* TFR = 1.325 and MAC = 7680/265, which is 28.75 to two decimals
C4_ExampleAsStated ==
  (Computed /\ rates = ExampleRates) =>
    /\ total_rate(asfr(rates)) = Num(265)
    /\ ind[1].row["TFR"] = Fin(1325, 1000)
    /\ ind[1].row["MAC"] = Fin(22 * 50 + 27 * 100 + 32 * 80 + 37 * 30 + 42 * 5, 265)
    /\ FGt(ind[1].row["MAC"], Fin(28745, 1000))
    /\ FGt(Fin(28755, 1000), ind[1].row["MAC"])

\* C4, amended: total = 265, TFR = 1.325 and MAC = 7680/265, which is 28.98
\* to two decimals
C4_Example ==
  (Computed /\ rates = ExampleRates) =>
    /\ total_rate(asfr(rates)) = Num(265)
    /\ ind[1].row["TFR"] = Fin(1325, 1000)
    /\ ind[1].row["MAC"] = Fin(22 * 50 + 27 * 100 + 32 * 80 + 37 * 30 + 42 * 5, 265)
    /\ FGt(ind[1].row["MAC"], Fin(28975, 1000))
    /\ FGt(Fin(28985, 1000), ind[1].row["MAC"])

\* the example row has been computed
C4_Witness == Computed /\ rates = ExampleRates /\ ind[1].kept

AllPresent == \A c \in ColSet : ~IsNaN(rates[c])

\* the sum of the nine rates, an infinite rate counted as such
ExtSum ==
  FAdd(FAdd(FAdd(FAdd(FAdd(FAdd(FAdd(FAdd(rates["f12"], rates["f17"]),
    rates["f22"]), rates["f27"]), rates["f32"]), rates["f37"]),
    rates["f42"]), rates["f47"]), rates["f52"])

\* C9 as stated: a row is retained by the drop step if and only if all nine
\* rates are present and their sum is strictly positive
C9_RetainedIffAsStated ==
  Computed => (ind[1].kept <=> (AllPresent /\ FGt(ExtSum, Num(0))))

\* C9, amended: a row is retained if and only if all nine rates are present
\* and finite and their sum is strictly positive
C9_RetainedIff ==
  Computed => (ind[1].kept <=> (AllFinite /\ SumRates > 0))

\* a row of mixed signs whose sum is 0 and whose weighted sum is not has
\* been dropped
C9_Witness ==
  /\ Computed /\ AllFinite /\ SumRates = 0 /\ WeightedSum # 0
  /\ ~ind[1].kept

NonNegative == AllFinite /\ \A c \in ColSet : R(c) >= 0

OnlyNonZero(c) == R(c) # 0 /\ \A d \in ColSet \ {c} : R(d) = 0

\* the midpoint the claims pair with a rate column
MidpointOf(c) ==
  CASE c = "f12" -> 12 [] c = "f17" -> 17 [] c = "f22" -> 22
    [] c = "f27" -> 27 [] c = "f32" -> 32 [] c = "f37" -> 37
    [] c = "f42" -> 42 [] c = "f47" -> 47 [] c = "f52" -> 52

InRange(m) == ~FGt(Num(12), m) /\ ~FGt(m, Num(52)) /\ IsFin(m)

\* C10 as stated: for a retained row of non-negative rates MAC lies in
\* [12, 52], and MAC equals a midpoint m_i exactly when r_i is the only
\* non-zero rate
C10_RangeAsStated ==
  (Computed /\ NonNegative /\ ind[1].kept) =>
    /\ InRange(ind[1].row["MAC"])
    /\ \A c \in ColSet :
         ind[1].row["MAC"] = Num(MidpointOf(c)) <=> OnlyNonZero(c)

\* C10, amended: MAC lies in [12, 52]; MAC equals m_i whenever r_i is the
\* only non-zero rate; and MAC equals 12 or 52 only when r_1, respectively
\* r_9, is the only non-zero rate
C10_Range ==
  (Computed /\ NonNegative /\ ind[1].kept) =>
    /\ InRange(ind[1].row["MAC"])
    /\ \A c \in ColSet :
         OnlyNonZero(c) => ind[1].row["MAC"] = Num(MidpointOf(c))
    /\ \A c \in {"f12", "f52"} :
         ind[1].row["MAC"] = Num(MidpointOf(c)) => OnlyNonZero(c)

\* a retained row with two non-zero rates whose MAC is the midpoint between
\* them
C10_Witness ==
  /\ Computed /\ NonNegative /\ ind[1].kept
  /\ R("f12") = 1 /\ R("f22") = 1 /\ R("f17") = 0
  /\ ind[1].row["MAC"] = Num(17)

-----------------------------------------------------------------------------
(* Properties of the region classifier *)

Labels == {"Africa", "Europe", "Americas", "Oceania", "Asia & Middle East"}

\* C5: get_region maps every code to exactly one of the five labels, by
\* membership tested in the order Africa, Europe, Americas, Oceania, with
\* Asia & Middle East as the default; FRA -> Europe, NGA -> Africa,
\* XYZ -> Asia & Middle East; every label is a key of the palette
C5_RegionTotal ==
  region # "none" =>
    /\ region \in Labels
    /\ region \in DOMAIN palette
    /\ region = "Africa" <=> code \in africa
    /\ region = "Europe" <=> (code \in europe /\ code \notin africa)
    /\ region = "Americas" <=> (code \in americas /\ code \notin africa \cup europe)
    /\ region = "Oceania" <=>
         (code \in oceania /\ code \notin africa \cup europe \cup americas)
    /\ code = FRA => region = "Europe"
    /\ code = NGA => region = "Africa"
    /\ code = XYZ => region = "Asia & Middle East"

\* an unmapped code has been classified
C5_Witness == code = XYZ /\ region = "Asia & Middle East"

=============================================================================
